---- MODULE Spec2Model ----
(***************************************************************************)
(* A model of src/parser.rs (tera): the recursive-descent template parser  *)
(* with its token cursor, top-level dispatch, variable blocks and the      *)
(* precedence-resolving expression engine.  The recursion of               *)
(* parse_whole_expression is made explicit as a sequence of frames.        *)
(***************************************************************************)
EXTENDS Integers, Sequences, FiniteSets, TLC

VARIABLES
    tokens,         \* lexer.tokens: the token list, fixed during the parse
    current_token,  \* Parser.current_token: 0-based index into tokens
    root,           \* Parser.root: the List node the parse appends to
    frames,         \* the running calls of parse_whole_expression, innermost last
    pc,             \* "parse_next" | "variable_block" | "done" | "panic"
    ret,            \* the node parse_whole_expression returned to parse_variable_block
    block_token,    \* parse_variable_block's `token`, the VariableStart it expected
    err,            \* the message of the panic that aborted the parse, "" if none
    spins           \* rounds of parse_next's loop on a TagStart, counted to MaxSpin

vars == <<tokens, current_token, root, frames, pc, ret, block_token, err, spins>>

----------------------------------------------------------------------------
(* Bounds of the model *)

\* longest arbitrary token stream (EOF not counted)
MaxLen == 4
\* most operands of a generated well-formed expression block
MaxOperands == 5
\* iterations of the TagStart no-op loop that are counted
MaxSpin == 2

----------------------------------------------------------------------------
(* Tokens (lexer::Token) and the token streams handed to the parser *)

NoToken == [kind |-> "None", value |-> "", position |-> 0]

EOFLexeme == [kind |-> "EOF", value |-> ""]

\* the operands an expression block is built from
OperandLexemes ==
    << [kind |-> "Identifier", value |-> "test"],
       [kind |-> "Int",        value |-> "42"],
       [kind |-> "Float",      value |-> "3.41"],
       [kind |-> "Bool",       value |-> "false"],
       [kind |-> "Int",        value |-> "1"],
       [kind |-> "Bool",       value |-> "true"] >>

OperatorLexemes ==
    { [kind |-> "Add",       value |-> "+"],
      [kind |-> "Substract", value |-> "-"],
      [kind |-> "Multiply",  value |-> "*"],
      [kind |-> "Divide",    value |-> "/"] }

SpaceLexeme == [kind |-> "Space", value |-> " "]

TextLexeme == [kind |-> "Text", value |-> "Hello"]

\* the lexemes the arbitrary streams are made of
Lexemes ==
    OperatorLexemes \cup
    { [kind |-> "Identifier",    value |-> "test"],
      [kind |-> "Int",           value |-> "1"],
      TextLexeme,
      [kind |-> "VariableStart", value |-> "{{"],
      [kind |-> "VariableEnd",   value |-> "}}"],
      [kind |-> "TagStart",      value |-> "{%"],
      SpaceLexeme }

RECURSIVE Offset(_, _)
\* byte offset of the i-th lexeme of a stream: the bytes of the lexemes before it
Offset(lexemes, i) ==
    IF i = 1 THEN 0 ELSE Offset(lexemes, i - 1) + Len(lexemes[i - 1].value)

\* the lexer's output for a sequence of lexemes: positioned tokens
Lex(lexemes) ==
    [i \in 1..Len(lexemes) |->
        [kind |-> lexemes[i].kind, value |-> lexemes[i].value,
         position |-> Offset(lexemes, i)]]

Pad(spaced) == IF spaced THEN <<SpaceLexeme>> ELSE <<>>

\* the i-th operand of a block whose first operand is OperandLexemes[first]
Operand(first, i) ==
    OperandLexemes[((first + i - 2) % Len(OperandLexemes)) + 1]

RECURSIVE ExprBody(_, _, _, _, _)
\* operand 1, operator 1, operand 2, ... operand n, optionally space separated
ExprBody(n, first, ops, spaced, i) ==
    IF i = n
    THEN <<Operand(first, i)>> \o Pad(spaced)
    ELSE <<Operand(first, i)>> \o Pad(spaced) \o <<ops[i]>> \o Pad(spaced)
         \o ExprBody(n, first, ops, spaced, i + 1)

Around(texts) == IF texts THEN <<TextLexeme>> ELSE <<>>

\* {{ a op b op ... }} EOF, or the same between two texts
ExprStream(n, first, ops, spaced, texts) ==
    Lex(Around(texts)
        \o <<[kind |-> "VariableStart", value |-> "{{"]>> \o Pad(spaced)
        \o ExprBody(n, first, ops, spaced, 1)
        \o <<[kind |-> "VariableEnd", value |-> "}}"]>>
        \o Around(texts) \o <<EOFLexeme>>)

\* Token::precedence
Precedence(kind) ==
    CASE kind \in {"Multiply", "Divide"} -> 5
      [] kind \in {"Add", "Substract"} -> 4
      [] OTHER -> 0

----------------------------------------------------------------------------
(* Nodes (nodes::Node, nodes::SpecificNode) *)

NoNode == [kind |-> "None", position |-> 0]

NewList(position) == [kind |-> "List", position |-> position, children |-> <<>>]

\* Node::push on a List
Push(list, node) == [list EXCEPT !.children = Append(@, node)]

\* Node::is_empty
IsEmpty(list) == Len(list.children) = 0

\* Node::pop: the last child, and the list without it
PopNode(list) == list.children[Len(list.children)]
PopRest(list) == [list EXCEPT !.children = SubSeq(@, 1, Len(@) - 1)]

\* the Math node positioned at its right operand
MathNodeAtRhs(lhs, rhs, operator) ==
    [kind |-> "Math", position |-> rhs.position,
     lhs |-> lhs, rhs |-> rhs, operator |-> operator]

\* Node::new(lhs.position, SpecificNode::Math{lhs, rhs, operator})
MathNode(lhs, rhs, operator) ==
    [kind |-> "Math", position |-> lhs.position,
     lhs |-> lhs, rhs |-> rhs, operator |-> operator]

----------------------------------------------------------------------------
(* Token cursor.  Every operation returns the token read, the cursor after *)
(* the operation and the failure, if any ("" when none).                   *)

Res(e, t, c) == [err |-> e, token |-> t, cur |-> c]

\* Parser::peek: tokens.get(current_token).unwrap()
Peek(cur) ==
    IF cur < Len(tokens)
    THEN Res("", tokens[cur + 1], cur)
    ELSE Res("peek out of range", NoToken, cur)

\* Parser::next_token
NextToken(cur) ==
    LET p == Peek(cur)
    IN IF p.err # "" THEN p ELSE Res("", p.token, cur + 1)

RECURSIVE NextNonSpace(_)
\* Parser::next_non_space
NextNonSpace(cur) ==
    LET n == NextToken(cur)
    IN IF n.err # "" THEN n
       ELSE IF n.token.kind # "Space" THEN n
       ELSE NextNonSpace(n.cur)

\* peek_non_space without its rewind
PeekNonSpaceNoRewind(cur) == NextNonSpace(cur)

\* peek_non_space rewinding to where it started
PeekNonSpaceFullRewind(cur) ==
    LET n == NextNonSpace(cur)
    IN IF n.err # "" THEN n ELSE Res("", n.token, cur)

\* Parser::peek_non_space: advance past the spaces and one token, rewind once
PeekNonSpace(cur) ==
    LET n == NextNonSpace(cur)
    IN IF n.err # "" THEN n ELSE Res("", n.token, n.cur - 1)

\* Parser::expect
Expect(cur, kind) ==
    LET p == PeekNonSpace(cur)
    IN IF p.err # "" THEN p
       ELSE IF p.token.kind # kind THEN Res("Unexpected token", p.token, p.cur)
       ELSE NextNonSpace(p.cur)

----------------------------------------------------------------------------
(* Leaves *)

NRes(e, n, c) == [err |-> e, node |-> n, cur |-> c]

(* Numerals: str::parse::<i32> and str::parse::<f32> of the standard library *)

DigitChars == "0123456789"

IsDigit(c) == \E i \in 1..Len(DigitChars) : SubSeq(DigitChars, i, i) = c

DigitOf(c) == CHOOSE d \in 0..9 : SubSeq(DigitChars, d + 1, d + 1) = c

AllDigits(s) == \A i \in 1..Len(s) : IsDigit(SubSeq(s, i, i))

HasSign(s) == s # "" /\ Head(s) \in {"+", "-"}

IsNegative(s) == s # "" /\ Head(s) = "-"

Unsigned(s) == IF HasSign(s) THEN Tail(s) ELSE s

\* i32::MAX
MaxI32 == 2147483647

\* i32::MIN
MinI32 == (-MaxI32) - 1

NoI32 == [ok |-> FALSE, value |-> 0]

RECURSIVE AccumulateI32(_, _, _)
\* digit by digit, checked: result * 10 + digit, or result * 10 - digit for a
\* negative numeral; a value outside i32 is an error
AccumulateI32(digits, negative, result) ==
    IF digits = ""
    THEN [ok |-> TRUE, value |-> result]
    ELSE LET d == DigitOf(Head(digits))
         IN IF negative
            THEN IF result >= (MinI32 + d + 9) \div 10
                 THEN AccumulateI32(Tail(digits), negative, result * 10 - d)
                 ELSE NoI32
            ELSE IF result <= (MaxI32 - d) \div 10
                 THEN AccumulateI32(Tail(digits), negative, result * 10 + d)
                 ELSE NoI32

\* str::parse::<i32>: an optional "+" or "-", then one or more decimal digits,
\* nothing else; the value must fit an i32
ParseI32(s) ==
    IF Unsigned(s) = "" \/ ~AllDigits(Unsigned(s))
    THEN NoI32
    ELSE AccumulateI32(Unsigned(s), IsNegative(s), 0)

UpperChars == "ABCDEFGHIJKLMNOPQRSTUVWXYZ"
LowerChars == "abcdefghijklmnopqrstuvwxyz"

LowerChar(c) ==
    IF \E i \in 1..Len(UpperChars) : SubSeq(UpperChars, i, i) = c
    THEN LET i == CHOOSE j \in 1..Len(UpperChars) : SubSeq(UpperChars, j, j) = c
         IN SubSeq(LowerChars, i, i)
    ELSE c

RECURSIVE Lowered(_)
Lowered(s) == IF s = "" THEN "" ELSE LowerChar(Head(s)) \o Lowered(Tail(s))

RECURSIVE DigitRun(_)
\* the number of digits s starts with
DigitRun(s) == IF s # "" /\ IsDigit(Head(s)) THEN 1 + DigitRun(Tail(s)) ELSE 0

Drop(s, n) == SubSeq(s, n + 1, Len(s))

RECURSIVE StripLeadingZeros(_)
StripLeadingZeros(s) ==
    IF s # "" /\ Head(s) = "0" THEN StripLeadingZeros(Tail(s)) ELSE s

RECURSIVE NatOf(_, _)
\* the number a string of at most nine digits writes
NatOf(digits, result) ==
    IF digits = "" THEN result
    ELSE NatOf(Tail(digits), result * 10 + DigitOf(Head(digits)))

\* from this exponent on the digits that follow are read and dropped
ExponentCap == 65536

RECURSIVE ExponentNat(_, _)
\* the number read from an exponent's digits: each digit is added while the
\* number is below ExponentCap and skipped once it has reached it
ExponentNat(digits, result) ==
    IF digits = "" THEN result
    ELSE IF result < ExponentCap
    THEN ExponentNat(Tail(digits), result * 10 + DigitOf(Head(digits)))
    ELSE ExponentNat(Tail(digits), result)

RECURSIVE Zeros(_)
Zeros(n) == IF n <= 0 THEN "" ELSE "0" \o Zeros(n - 1)

Max(a, b) == IF a >= b THEN a ELSE b

\* a natural number of any size is the sequence of its limbs, most significant
\* first, a limb being LimbDigits decimal digits
LimbDigits == 4
Limb == 10000

\* the limbs of the number a digit string writes, count of them at least
LimbsOf(digits, count) ==
    LET n == Max(count, (Len(digits) + LimbDigits - 1) \div LimbDigits)
    IN [i \in 1..n |->
          LET last == Len(digits) - LimbDigits * (n - i)
          IN IF last < 1
             THEN 0
             ELSE NatOf(SubSeq(digits, Max(1, last - LimbDigits + 1), last), 0)]

RECURSIVE Times(_, _, _)
\* the limbs of limbs * k + carry, for k and carry up to 2^16
Times(limbs, k, carry) ==
    IF limbs = <<>>
    THEN IF carry = 0 THEN <<>>
         ELSE IF carry < Limb THEN <<carry>>
         ELSE <<carry \div Limb, carry % Limb>>
    ELSE LET product == limbs[Len(limbs)] * k + carry
         IN Append(Times(SubSeq(limbs, 1, Len(limbs) - 1), k, product \div Limb),
                   product % Limb)

RECURSIVE StripZeroLimbs(_)
StripZeroLimbs(limbs) ==
    IF limbs # <<>> /\ Head(limbs) = 0 THEN StripZeroLimbs(Tail(limbs)) ELSE limbs

\* an f32: NaN, an infinity, or the finite value mant * 2^exp, mant being odd,
\* or zero with exp zero; negative is the sign bit
F32(class, negative, mant, exp) ==
    [class |-> class, negative |-> negative, mant |-> mant, exp |-> exp]

NoF32 == [ok |-> FALSE, value |-> F32("nan", FALSE, 0, 0)]

\* 2^23 and 2^24: an f32 has 24 significant bits
TwoTo23 == 8388608
TwoTo24 == 2 * TwoTo23

\* the least exponent of the last bit of an f32 and the greatest one
MinExp2 == -149
MaxExp2 == 104

RECURSIVE OddF32(_, _, _)
OddF32(negative, mant, exp) ==
    IF mant = 0 THEN F32("finite", negative, 0, 0)
    ELSE IF mant % 2 = 0 THEN OddF32(negative, mant \div 2, exp + 1)
    ELSE F32("finite", negative, mant, exp)

\* whole, 24 bits, and the limbs of the part left below it, rounded to nearest,
\* a tie to even
RoundedBits(whole, part) ==
    LET up == /\ part # <<>>
              /\ \/ part[1] > Limb \div 2
                 \/ /\ part[1] = Limb \div 2
                    /\ \/ \E i \in 2..Len(part) : part[i] # 0
                       \/ whole % 2 = 1
    IN IF up THEN whole + 1 ELSE whole

RECURSIVE NearestF32(_, _, _, _)
\* the f32 nearest to limbs / Limb^places * 2^exp2. The number is halved (times
\* 5000, one more limb below the point) while more than 24 bits stand before
\* the point and doubled while fewer do and the exponent can go down, several
\* times in one step where it is far off; then it is rounded.
NearestF32(negative, limbs, places, exp2) ==
    LET whole == StripZeroLimbs(SubSeq(limbs, 1, Len(limbs) - places))
        part == SubSeq(limbs, Len(limbs) - places + 1, Len(limbs))
        \* the number before the point, when it has at most two limbs
        w == IF whole = <<>> THEN 0
             ELSE IF Len(whole) = 1 THEN whole[1]
             ELSE whole[1] * Limb + whole[2]
        bits == RoundedBits(w, part)
    IN IF Len(whole) > 3
       THEN \* 10^12 and more: by 2^12, 625 being 10^4 / 2^4
            NearestF32(negative, Times(Times(Times(limbs, 625, 0), 625, 0), 625, 0),
                       places + 3, exp2 + 12)
       ELSE IF Len(whole) = 3
       THEN \* 10^8 and more: by 2^2
            NearestF32(negative, Times(limbs, 2500, 0), places + 1, exp2 + 2)
       ELSE IF w >= TwoTo24
       THEN NearestF32(negative, Times(limbs, 5000, 0), places + 1, exp2 + 1)
       ELSE IF w < TwoTo23 \div 65536 /\ exp2 - 16 >= MinExp2
       THEN NearestF32(negative, Times(limbs, 65536, 0), places, exp2 - 16)
       ELSE IF w < TwoTo23 \div 16 /\ exp2 - 4 >= MinExp2
       THEN NearestF32(negative, Times(limbs, 16, 0), places, exp2 - 4)
       ELSE IF w < TwoTo23 /\ exp2 > MinExp2
       THEN NearestF32(negative, Times(limbs, 2, 0), places, exp2 - 1)
       ELSE IF exp2 > MaxExp2 \/ (exp2 = MaxExp2 /\ bits = TwoTo24)
       THEN F32("infinite", negative, 0, 0)
       ELSE OddF32(negative, bits, exp2)

\* the f32 of the decimal digits * 10^exp; a value of 10^39 or more is beyond
\* every f32, one below 10^-46 is nearest to zero
DecimalF32(negative, digits, exp) ==
    LET sig == StripLeadingZeros(digits)
        \* the value lies in [10^(order - 1), 10^order)
        order == Len(sig) + exp
        \* zeros appended to bring the point to a limb's edge
        pad == (LimbDigits - ((-exp) % LimbDigits)) % LimbDigits
        places == ((-exp) + pad) \div LimbDigits
    IN IF sig = ""
       THEN F32("finite", negative, 0, 0)
       ELSE IF order > 39
       THEN F32("infinite", negative, 0, 0)
       ELSE IF order < -45
       THEN F32("finite", negative, 0, 0)
       ELSE IF exp >= 0
       THEN NearestF32(negative, LimbsOf(sig \o Zeros(exp), 0), 0, 0)
       ELSE NearestF32(negative, LimbsOf(sig \o Zeros(pad), places), places, 0)

\* the exponent part of a float numeral: empty, or "e" or "E", an optional sign
\* and one or more digits
ExponentOk(s) ==
    \/ s = ""
    \/ /\ Head(s) \in {"e", "E"}
       /\ Unsigned(Tail(s)) # ""
       /\ AllDigits(Unsigned(Tail(s)))

ExponentOf(s) ==
    IF s = "" THEN 0
    ELSE IF IsNegative(Tail(s)) THEN 0 - ExponentNat(Unsigned(Tail(s)), 0)
    ELSE ExponentNat(Unsigned(Tail(s)), 0)

\* str::parse::<f32>: an optional sign, then "inf", "infinity" or "nan" in any
\* case, or digits with an optional "." and an optional exponent, with a digit
\* before or after the "."
ParseF32(s) ==
    LET body == Unsigned(s)
        negative == IsNegative(s)
        int == SubSeq(body, 1, DigitRun(body))
        afterInt == Drop(body, Len(int))
        dotted == afterInt # "" /\ Head(afterInt) = "."
        frac == IF dotted THEN SubSeq(Tail(afterInt), 1, DigitRun(Tail(afterInt)))
                ELSE ""
        rest == IF dotted THEN Drop(Tail(afterInt), Len(frac)) ELSE afterInt
        \* the words are looked for in a text of their length only
        word == IF Len(body) \in {3, 8} THEN Lowered(body) ELSE ""
    IN IF word \in {"inf", "infinity"}
       THEN [ok |-> TRUE, value |-> F32("infinite", negative, 0, 0)]
       ELSE IF word = "nan"
       THEN [ok |-> TRUE, value |-> F32("nan", negative, 0, 0)]
       ELSE IF Len(int) + Len(frac) = 0 \/ ~ExponentOk(rest)
       THEN NoF32
       ELSE [ok |-> TRUE,
             value |-> DecimalF32(negative, int \o frac, ExponentOf(rest) - Len(frac))]

\* Parser::parse_identifier
ParseIdentifier(cur) ==
    LET ident == NextNonSpace(cur)
    IN IF ident.err # "" THEN NRes(ident.err, NoNode, ident.cur)
       ELSE NRes("", [kind |-> "Identifier", position |-> ident.token.position,
                      value |-> ident.token.value], ident.cur)

\* Parser::parse_literal
ParseLiteral(cur) ==
    LET literal == NextNonSpace(cur)
        k == literal.token.kind
        p == literal.token.position
        v == literal.token.value
    IN IF literal.err # "" THEN NRes(literal.err, NoNode, literal.cur)
       ELSE CASE k = "Int" ->
                   LET int == ParseI32(v)
                   IN IF int.ok
                      THEN NRes("", [kind |-> "Int", position |-> p,
                                     value |-> int.value], literal.cur)
                      ELSE NRes("ParseIntError", NoNode, literal.cur)
              [] k = "Float" ->
                   LET float == ParseF32(v)
                   IN IF float.ok
                      THEN NRes("", [kind |-> "Float", position |-> p,
                                     value |-> float.value], literal.cur)
                      ELSE NRes("ParseFloatError", NoNode, literal.cur)
              [] k = "Bool" ->
                   NRes("", [kind |-> "Bool", position |-> p,
                             value |-> (IF v = "false" THEN FALSE ELSE TRUE)],
                        literal.cur)
              [] OTHER -> NRes("unexpected type when parsing literal", NoNode, literal.cur)

\* Parser::parse_single_expression
ParseSingleExpression(cur, terminator) ==
    LET p == PeekNonSpace(cur)
        k == p.token.kind
    IN IF p.err # "" THEN NRes(p.err, NoNode, p.cur)
       ELSE IF k = terminator THEN NRes("Unexpected terminator", NoNode, p.cur)
       ELSE CASE k = "Identifier" -> ParseIdentifier(p.cur)
              [] k \in {"Float", "Int", "Bool"} -> ParseLiteral(p.cur)
              [] k \in {"Add", "Substract"} -> NRes("wololo", NoNode, p.cur)
              [] OTHER -> NRes("unexpected", NoNode, p.cur)

----------------------------------------------------------------------------
(* State *)

\* a call of parse_whole_expression
Frame(at, stack, terminator) ==
    [at |-> at, node_stack |-> stack, terminator |-> terminator,
     token |-> NoToken, rhs |-> NoNode]

Top == frames[Len(frames)]

SetTop(f) == [frames EXCEPT ![Len(frames)] = f]

Panic(msg, cur) ==
    /\ pc' = "panic"
    /\ err' = msg
    /\ current_token' = cur
    /\ UNCHANGED <<tokens, root, frames, ret, block_token, spins>>

Init ==
    /\ \/ \E n \in 0..MaxLen : \E s \in [1..n -> Lexemes] :
              tokens = Lex(s \o <<EOFLexeme>>)
       \/ \E n \in 1..MaxOperands : \E first \in 1..Len(OperandLexemes) :
              \E ops \in [1..(n - 1) -> OperatorLexemes] :
                 \E spaced \in BOOLEAN : \E texts \in BOOLEAN :
                    tokens = ExprStream(n, first, ops, spaced, texts)
    /\ current_token = 0
    /\ root = NewList(0)
    /\ frames = <<>>
    /\ pc = "parse_next"
    /\ ret = NoNode
    /\ block_token = NoToken
    /\ err = ""
    /\ spins = 0


----------------------------------------------------------------------------
(* Top-level dispatch: Parser::parse and Parser::parse_next *)

AtTopLevel == pc = "parse_next"

\* TagStart handled like `_ => break`
ParseNextTagStartBreaks ==
    /\ AtTopLevel
    /\ Peek(current_token).err = ""
    /\ Peek(current_token).token.kind = "TagStart"
    /\ pc' = "done"
    /\ spins' = (IF spins < MaxSpin THEN spins + 1 ELSE spins)
    /\ UNCHANGED <<tokens, current_token, root, frames, ret, block_token, err>>

\* parse_next, TagStart arm: `TagStart => ()`, and the loop goes round again
ParseNextTagStart ==
    /\ AtTopLevel
    /\ Peek(current_token).err = ""
    /\ Peek(current_token).token.kind = "TagStart"
    /\ spins' = (IF spins < MaxSpin THEN spins + 1 ELSE spins)
    /\ UNCHANGED <<tokens, current_token, root, frames, pc, ret, block_token, err>>

\* parse_next, Text arm (parse_text), and parse's root.push
ParseNextText ==
    /\ AtTopLevel
    /\ Peek(current_token).err = ""
    /\ Peek(current_token).token.kind = "Text"
    /\ LET token == NextToken(current_token)
       IN /\ root' = Push(root, [kind |-> "Text", position |-> token.token.position,
                                 value |-> token.token.value])
          /\ current_token' = token.cur
    /\ UNCHANGED <<tokens, frames, pc, ret, block_token, err, spins>>

\* parse_next, VariableStart arm: parse_variable_block up to its call of
\* parse_whole_expression(None, VariableEnd)
ParseNextVariableStart ==
    /\ AtTopLevel
    /\ Peek(current_token).err = ""
    /\ Peek(current_token).token.kind = "VariableStart"
    /\ LET token == Expect(current_token, "VariableStart")
       IN IF token.err # ""
          THEN Panic(token.err, token.cur)
          ELSE /\ block_token' = token.token
               /\ current_token' = token.cur
               /\ frames' = <<Frame("entry", NoNode, "VariableEnd")>>
               /\ pc' = "variable_block"
               /\ UNCHANGED <<tokens, root, ret, err, spins>>

\* parse_next, `_ => break`: parse_next returns None and parse's loop ends
ParseNextBreak ==
    /\ AtTopLevel
    /\ LET p == Peek(current_token)
       IN IF p.err # ""
          THEN Panic(p.err, p.cur)
          ELSE /\ p.token.kind \notin {"TagStart", "VariableStart", "Text"}
               /\ pc' = "done"
               /\ UNCHANGED <<tokens, current_token, root, frames, ret, block_token,
                              err, spins>>

\* parse_variable_block after parse_whole_expression returned: wrap the
\* expression, expect VariableEnd; and parse's root.push
VariableBlockFinish ==
    /\ pc = "variable_block"
    /\ frames = <<>>
    /\ LET node == [kind |-> "VariableBlock", position |-> block_token.position,
                    contained |-> ret]
           e == Expect(current_token, "VariableEnd")
       IN IF e.err # ""
          THEN Panic(e.err, e.cur)
          ELSE /\ root' = Push(root, node)
               /\ current_token' = e.cur
               /\ pc' = "parse_next"
               /\ ret' = NoNode
               /\ UNCHANGED <<tokens, frames, block_token, err, spins>>

----------------------------------------------------------------------------
(* Parser::parse_whole_expression, one frame per call *)

InExpression == pc = "variable_block" /\ frames # <<>>

\* a call of parse_whole_expression is about to run its first statement
AtEntry == InExpression /\ Top.at = "entry"

\* lines 123-127: peek, take or create the stack, parse one operand, push it
WholeEntry ==
    /\ AtEntry
    /\ LET token == PeekNonSpace(current_token)
           node_stack == IF Top.node_stack = NoNode
                         THEN NewList(token.token.position)
                         ELSE Top.node_stack
           next == ParseSingleExpression(token.cur, Top.terminator)
       IN IF token.err # ""
          THEN Panic(token.err, token.cur)
          ELSE IF next.err # ""
          THEN Panic(next.err, next.cur)
          ELSE /\ frames' = SetTop([Top EXCEPT !.at = "loop",
                                               !.node_stack = Push(node_stack, next.node)])
               /\ current_token' = next.cur
               /\ UNCHANGED <<tokens, root, pc, ret, block_token, err, spins>>

\* line 130: let token = self.peek_non_space()
LoopPeek ==
    /\ InExpression
    /\ Top.at = "loop"
    /\ LET token == PeekNonSpace(current_token)
       IN IF token.err # ""
          THEN Panic(token.err, token.cur)
          ELSE /\ frames' = SetTop([Top EXCEPT !.at = "match", !.token = token.token])
               /\ current_token' = token.cur
               /\ UNCHANGED <<tokens, root, pc, ret, block_token, err, spins>>

\* `return value`: to the calling frame (line 146) or to parse_variable_block
Return(value) ==
    IF Len(frames) = 1
    THEN /\ frames' = <<>>
         /\ ret' = value
    ELSE /\ frames' = [SubSeq(frames, 1, Len(frames) - 1)
                          EXCEPT ![Len(frames) - 1].rhs = value]
         /\ UNCHANGED ret

\* the call returns the working stack itself instead of its last element
MatchTerminatorReturnsStack ==
    /\ InExpression
    /\ Top.at = "match"
    /\ Top.token.kind = Top.terminator
    /\ IF IsEmpty(Top.node_stack)
       THEN Panic("Unexpected terminator", current_token)
       ELSE /\ Return(Top.node_stack)
            /\ UNCHANGED <<tokens, current_token, root, pc, block_token, err, spins>>

\* the call consumes the terminator before it returns
MatchTerminatorConsumes ==
    /\ InExpression
    /\ Top.at = "match"
    /\ Top.token.kind = Top.terminator
    /\ IF IsEmpty(Top.node_stack)
       THEN Panic("Unexpected terminator", current_token)
       ELSE /\ Return(PopNode(Top.node_stack))
            /\ current_token' = NextNonSpace(current_token).cur
            /\ UNCHANGED <<tokens, root, pc, block_token, err, spins>>

\* lines 131-136: the terminator ends the call, which returns node_stack.pop()
MatchTerminator ==
    /\ InExpression
    /\ Top.at = "match"
    /\ Top.token.kind = Top.terminator
    /\ IF IsEmpty(Top.node_stack)
       THEN Panic("Unexpected terminator", current_token)
       ELSE /\ Return(PopNode(Top.node_stack))
            /\ UNCHANGED <<tokens, current_token, root, pc, block_token, err, spins>>

\* "+" and "-" take ONE operand as their rhs, as "*" and "/" do
MatchAddSubstractSingleRhs ==
    /\ InExpression
    /\ Top.at = "match"
    /\ Top.token.kind # Top.terminator
    /\ Top.token.kind \in {"Add", "Substract"}
    /\ LET n == NextNonSpace(current_token)
           rhs == ParseSingleExpression(n.cur, Top.terminator)
           lhs == PopNode(Top.node_stack)
           operator == IF Top.token.kind = "Add" THEN "+" ELSE "-"
       IN IF n.err # ""
          THEN Panic(n.err, n.cur)
          ELSE IF rhs.err # ""
          THEN Panic(rhs.err, rhs.cur)
          ELSE /\ current_token' = rhs.cur
               /\ frames' = SetTop([Top EXCEPT
                            !.at = "loop",
                            !.node_stack = Push(PopRest(Top.node_stack),
                                                MathNode(lhs, rhs.node, operator))])
               /\ UNCHANGED <<tokens, root, pc, ret, block_token, err, spins>>

\* lines 139-146: consume the operator, parse the rest with a clone of the stack
MatchAddSubstract ==
    /\ InExpression
    /\ Top.at = "match"
    /\ Top.token.kind # Top.terminator
    /\ Top.token.kind \in {"Add", "Substract"}
    /\ LET n == NextNonSpace(current_token)
       IN IF n.err # ""
          THEN Panic(n.err, n.cur)
          ELSE /\ current_token' = n.cur
               /\ IF IsEmpty(Top.node_stack)
                  THEN frames' = SetTop([Top EXCEPT !.at = "loop"])
                  ELSE frames' = Append(SetTop([Top EXCEPT !.at = "after_rhs"]),
                                        Frame("entry", Top.node_stack, Top.terminator))
               /\ UNCHANGED <<tokens, root, pc, ret, block_token, err, spins>>

\* the precedence comparison of line 151 the wrong way round
AfterRhsInverted ==
    /\ InExpression
    /\ Top.at = "after_rhs"
    /\ LET next_token == PeekNonSpace(current_token)
           lhs == PopNode(Top.node_stack)
           operator == IF Top.token.kind = "Add" THEN "+" ELSE "-"
       IN IF next_token.err # ""
          THEN Panic(next_token.err, next_token.cur)
          ELSE /\ current_token' = next_token.cur
               /\ IF Precedence(next_token.token.kind) < Precedence(Top.token.kind)
                  THEN frames' = SetTop(Frame("entry", Push(Top.node_stack, Top.rhs),
                                              Top.terminator))
                  ELSE frames' = SetTop([Top EXCEPT
                            !.at = "loop",
                            !.rhs = NoNode,
                            !.node_stack = Push(PopRest(Top.node_stack),
                                                MathNode(lhs, Top.rhs, operator))])
               /\ UNCHANGED <<tokens, root, pc, ret, block_token, err, spins>>

\* lines 150-165: after the recursive call returned rhs, compare precedences:
\* defer (push rhs, return the parse of the rest) or build the Math node
AfterRhs ==
    /\ InExpression
    /\ Top.at = "after_rhs"
    /\ LET next_token == PeekNonSpace(current_token)
           lhs == PopNode(Top.node_stack)
           operator == IF Top.token.kind = "Add" THEN "+" ELSE "-"
       IN IF next_token.err # ""
          THEN Panic(next_token.err, next_token.cur)
          ELSE /\ current_token' = next_token.cur
               /\ IF Precedence(next_token.token.kind) > Precedence(Top.token.kind)
                  THEN frames' = SetTop(Frame("entry", Push(Top.node_stack, Top.rhs),
                                              Top.terminator))
                  ELSE frames' = SetTop([Top EXCEPT
                            !.at = "loop",
                            !.rhs = NoNode,
                            !.node_stack = Push(PopRest(Top.node_stack),
                                                MathNode(lhs, Top.rhs, operator))])
               /\ UNCHANGED <<tokens, root, pc, ret, block_token, err, spins>>

\* the match of line 138 is about to take its Divide | Multiply arm
AtDivideMultiply ==
    /\ InExpression
    /\ Top.at = "match"
    /\ Top.token.kind # Top.terminator
    /\ Top.token.kind \in {"Divide", "Multiply"}

\* lines 167-184: consume the operator, parse ONE operand, build the Math node
MatchDivideMultiply ==
    /\ AtDivideMultiply
    /\ LET n == NextNonSpace(current_token)
           rhs == ParseSingleExpression(n.cur, Top.terminator)
           lhs == PopNode(Top.node_stack)
           operator == IF Top.token.kind = "Multiply" THEN "*" ELSE "/"
       IN IF n.err # ""
          THEN Panic(n.err, n.cur)
          ELSE IF IsEmpty(Top.node_stack)
          THEN Panic("Unexpected division or multiplication", n.cur)
          ELSE IF rhs.err # ""
          THEN Panic(rhs.err, rhs.cur)
          ELSE /\ current_token' = rhs.cur
               /\ frames' = SetTop([Top EXCEPT
                            !.at = "loop",
                            !.node_stack = Push(PopRest(Top.node_stack),
                                                MathNode(lhs, rhs.node, operator))])
               /\ UNCHANGED <<tokens, root, pc, ret, block_token, err, spins>>

\* line 185: `_ => panic!("Unexpected token")`
MatchUnexpected ==
    /\ InExpression
    /\ Top.at = "match"
    /\ Top.token.kind # Top.terminator
    /\ Top.token.kind \notin {"Add", "Substract", "Divide", "Multiply"}
    /\ Panic("Unexpected token", current_token)

----------------------------------------------------------------------------

Next ==
    \/ ParseNextTagStart
    \/ ParseNextText
    \/ ParseNextVariableStart
    \/ ParseNextBreak
    \/ VariableBlockFinish
    \/ WholeEntry
    \/ LoopPeek
    \/ MatchTerminator
    \/ MatchAddSubstract
    \/ AfterRhs
    \/ MatchDivideMultiply
    \/ MatchUnexpected

Spec == Init /\ [][Next]_vars


----------------------------------------------------------------------------
(* Vocabulary of the properties *)

OperandKinds == {"Identifier", "Int", "Float", "Bool"}
OperatorKinds == {"Add", "Substract", "Multiply", "Divide"}

Finished == pc = "done"
Aborted == pc = "panic"

Children == root.children

\* the tokens of the stream that are not Space, in order
NonSpace == SelectSeq(tokens, LAMBDA t : t.kind # "Space")

\* the leaf a single operand token stands for
LeafOf(t) ==
    CASE t.kind = "Int"   -> [kind |-> "Int", position |-> t.position,
                              value |-> ParseI32(t.value).value]
      [] t.kind = "Float" -> [kind |-> "Float", position |-> t.position,
                              value |-> ParseF32(t.value).value]
      [] t.kind = "Bool"  -> [kind |-> "Bool", position |-> t.position,
                              value |-> (t.value # "false")]
      [] OTHER            -> [kind |-> t.kind, position |-> t.position,
                              value |-> t.value]

SymbolOf(kind) ==
    CASE kind = "Add" -> "+"
      [] kind = "Substract" -> "-"
      [] kind = "Multiply" -> "*"
      [] OTHER -> "/"

IsLowMath(n) == n.kind = "Math" /\ n.operator \in {"+", "-"}
IsHighMath(n) == n.kind = "Math" /\ n.operator \in {"*", "/"}

\* the stream is one block {{ operand (operator operand)* }} followed by EOF,
\* with Space tokens nowhere but inside the block
SingleBlock ==
    LET ns == NonSpace
        n == Len(ns)
    IN /\ n >= 4
       /\ tokens[1].kind = "VariableStart"
       /\ tokens[Len(tokens) - 1].kind = "VariableEnd"
       /\ n % 2 = 0
       /\ ns[1].kind = "VariableStart"
       /\ ns[n - 1].kind = "VariableEnd"
       /\ ns[n].kind = "EOF"
       /\ \A i \in 2..(n - 2) :
             IF i % 2 = 0 THEN ns[i].kind \in OperandKinds
                          ELSE ns[i].kind \in OperatorKinds

\* the expression the only block of the root holds
Payload == Children[1].contained

Parsed == Finished /\ Len(Children) = 1 /\ Children[1].kind = "VariableBlock"

----------------------------------------------------------------------------
(* C1 *)

RECURSIVE TiersNest(_)
\* no "*" or "/" node anywhere in the tree has a "+" or "-" node as an operand
TiersNest(n) ==
    CASE n.kind = "Math" ->
           /\ IsHighMath(n) => ~IsLowMath(n.lhs) /\ ~IsLowMath(n.rhs)
           /\ TiersNest(n.lhs)
           /\ TiersNest(n.rhs)
      [] n.kind = "VariableBlock" -> TiersNest(n.contained)
      [] n.kind = "List" -> \A i \in 1..Len(n.children) : TiersNest(n.children[i])
      [] OTHER -> TRUE

\* C1: in every tree the parser produces (the root, the value a call returned,
\* the working stacks), a Math node with operator "*" or "/" never has a Math
\* node with operator "+" or "-" as its lhs or rhs.
C1_HigherTierNestsBelow ==
    /\ TiersNest(root)
    /\ TiersNest(ret)
    /\ \A i \in 1..Len(frames) :
          TiersNest(frames[i].node_stack) /\ TiersNest(frames[i].rhs)

\* a finished parse of a block where "+"/"-" comes first and "*"//" later, as
\* in 1 + 2 * 3, and of one where "*"//" comes first, as in 1 / 2 + 1
C1_Witness ==
    /\ Parsed
    /\ SingleBlock
    /\ NonSpace[3].kind \in {"Add", "Substract"}
    /\ NonSpace[5].kind \in {"Multiply", "Divide"}
    /\ IsLowMath(Payload)
    /\ IsHighMath(Payload.rhs)

----------------------------------------------------------------------------
(* C2 *)

\* the stream is the block {{ a op1 b op2 c }}
ThreeOperands == SingleBlock /\ Len(NonSpace) = 8

SameTier ==
    Precedence(NonSpace[3].kind) = Precedence(NonSpace[5].kind)

Node3(lhs, rhs, kind) ==
    [kind |-> "Math", position |-> lhs.position, lhs |-> lhs, rhs |-> rhs,
     operator |-> SymbolOf(kind)]

\* Math{Math{a op1 b} op2 c}
LeftNested ==
    LET ns == NonSpace
    IN Node3(Node3(LeafOf(ns[2]), LeafOf(ns[4]), ns[3].kind), LeafOf(ns[6]), ns[5].kind)

\* Math{a op1 Math{b op2 c}}
RightNested ==
    LET ns == NonSpace
    IN Node3(LeafOf(ns[2]), Node3(LeafOf(ns[4]), LeafOf(ns[6]), ns[5].kind), ns[3].kind)

\* C2 as stated: for operators of one tier, {{ a op1 b op2 c }} parses as
\* Math{Math{a op1 b} op2 c}, in the "+"/"-" tier as in the "*"//" tier.
C2_LeftAssociativeInEveryTier ==
    (ThreeOperands /\ SameTier /\ (Finished \/ Aborted))
        => (Parsed /\ Payload = LeftNested)

\* C2 amended: for operators of one tier, {{ a op1 b op2 c }} parses as
\* Math{Math{a op1 b} op2 c} when the tier is "*"//" and as
\* Math{a op1 Math{b op2 c}} when the tier is "+"/"-".
C2_AssociativityByTier ==
    (ThreeOperands /\ SameTier /\ (Finished \/ Aborted))
        => /\ Parsed
           /\ Payload = IF NonSpace[3].kind \in {"Multiply", "Divide"}
                        THEN LeftNested ELSE RightNested

\* a finished parse of a - b + c
C2_Witness ==
    /\ Parsed
    /\ ThreeOperands
    /\ NonSpace[3].kind = "Substract"
    /\ NonSpace[5].kind = "Add"

----------------------------------------------------------------------------
(* C3 *)

RECURSIVE LeftChain(_, _, _)
\* the operands ns[lo], ns[lo+2], .. ns[hi] joined by "*"//", nested to the left
LeftChain(ns, lo, hi) ==
    IF lo = hi
    THEN LeafOf(ns[hi])
    ELSE Node3(LeftChain(ns, lo, hi - 2), LeafOf(ns[hi]), ns[hi - 1].kind)

\* the positions in lo..hi of the "+" and "-" tokens
LowOperators(ns, lo, hi) ==
    { i \in lo..hi : ns[i].kind \in {"Add", "Substract"} }

Least(S) == CHOOSE i \in S : \A j \in S : i <= j

RECURSIVE RightClosed(_, _, _)
\* M1 o1 (M2 o2 (... Mn)): split at the first "+" or "-"
RightClosed(ns, lo, hi) ==
    IF LowOperators(ns, lo, hi) = {}
    THEN LeftChain(ns, lo, hi)
    ELSE LET k == Least(LowOperators(ns, lo, hi))
         IN Node3(LeftChain(ns, lo, k - 1), RightClosed(ns, k + 1, hi), ns[k].kind)

\* C3: a block M1 o1 M2 o2 ... Mn (oi "+" or "-", Mi an operand or a chain of
\* "*"//" over operands) is accepted and parses as Math{M1 o1 Math{M2 o2 (..Mn)}}:
\* the rhs of the node of oi is the parse of everything to its right.
C3_AddClosesOverTheRest ==
    (SingleBlock /\ (Finished \/ Aborted))
        => /\ Parsed
           /\ Payload = RightClosed(NonSpace, 2, Len(NonSpace) - 2)

\* a finished parse shaped like 1 / 2 + 3 * 2 + 42
C3_Witness ==
    /\ Parsed
    /\ SingleBlock
    /\ Len(NonSpace) = 12
    /\ IsLowMath(Payload)
    /\ IsHighMath(Payload.lhs)
    /\ IsLowMath(Payload.rhs)
    /\ IsHighMath(Payload.rhs.lhs)
    /\ Payload.rhs.rhs.kind \in OperandKinds


----------------------------------------------------------------------------
(* C4 *)

RECURSIVE SkipSpace(_)
\* the first position at or after i (1-based) that holds no Space
SkipSpace(i) ==
    IF i < Len(tokens) /\ tokens[i].kind = "Space" THEN SkipSpace(i + 1) ELSE i

RECURSIVE BlockEnd(_)
\* an operand is due at i: the position after the VariableEnd that closes
\* operand (operator operand)*, or 0 when the block is malformed
BlockEnd(i) ==
    LET j == SkipSpace(i)
        k == SkipSpace(j + 1)
    IN IF j >= Len(tokens) \/ tokens[j].kind \notin OperandKinds THEN 0
       ELSE IF tokens[k].kind = "VariableEnd" THEN k + 1
       ELSE IF tokens[k].kind \in OperatorKinds /\ k < Len(tokens) THEN BlockEnd(k + 1)
       ELSE 0

RECURSIVE WellFormedFrom(_)
\* tokens[i..] is (Text | VariableStart expression VariableEnd)* EOF
WellFormedFrom(i) ==
    CASE tokens[i].kind = "EOF" -> i = Len(tokens)
      [] tokens[i].kind = "Text" -> WellFormedFrom(i + 1)
      [] tokens[i].kind = "VariableStart" ->
            BlockEnd(i + 1) # 0 /\ WellFormedFrom(BlockEnd(i + 1))
      [] OTHER -> FALSE

WellFormed == WellFormedFrom(1)

NoTagStart == \A i \in 1..Len(tokens) : tokens[i].kind # "TagStart"

\* C4: on a stream without TagStart that is not of the form
\* (Text | VariableStart expression VariableEnd)* EOF the parse never returns
\* normally, so no root built from a prefix of the tokens is ever returned.
C4_MalformedNeverReturns ==
    (NoTagStart /\ ~WellFormed) => ~Finished

----------------------------------------------------------------------------
(* C5 *)

RECURSIVE IsExpression(_)
\* a single Identifier, Int, Float, Bool or Math node, Math operands likewise
IsExpression(n) ==
    \/ n.kind \in OperandKinds
    \/ /\ n.kind = "Math"
       /\ n.operator \in {"+", "-", "*", "/"}
       /\ IsExpression(n.lhs)
       /\ IsExpression(n.rhs)

\* C5: the root is a List of Text and VariableBlock nodes in the order of their
\* tokens, and every VariableBlock payload and every Math operand is a single
\* Identifier, Int, Float, Bool or Math node, never a List.
C5_RootShape ==
    /\ root.kind = "List"
    /\ \A i \in 1..Len(Children) :
          /\ Children[i].kind \in {"Text", "VariableBlock"}
          /\ Children[i].kind = "VariableBlock" => IsExpression(Children[i].contained)
          /\ i > 1 => Children[i - 1].position < Children[i].position

\* a root holding a Text, a VariableBlock whose payload is a Math node with
\* a Math operand, and a Text
C5_Witness ==
    /\ Finished
    /\ Len(Children) = 3
    /\ Children[1].kind = "Text"
    /\ Children[2].kind = "VariableBlock"
    /\ Children[2].contained.kind = "Math"
    /\ Children[2].contained.rhs.kind = "Math"
    /\ Children[3].kind = "Text"

----------------------------------------------------------------------------
(* C6 *)

RECURSIVE Leaves(_)
\* the leaves of an expression, left to right
Leaves(n) == IF n.kind = "Math" THEN Leaves(n.lhs) \o Leaves(n.rhs) ELSE <<n>>

\* the node is the leaf of one of the stream's tokens, at that token's offset
IsTokenLeaf(n) ==
    \E i \in 1..Len(tokens) : tokens[i].kind = n.kind /\ LeafOf(tokens[i]) = n

RECURSIVE PositionsRight(_)
PositionsRight(n) ==
    CASE n.kind = "Math" ->
           LET ls == Leaves(n)
           IN /\ n.position = ls[1].position
              /\ \A i \in 2..Len(ls) : n.position < ls[i].position
              /\ PositionsRight(n.lhs)
              /\ PositionsRight(n.rhs)
      [] n.kind = "VariableBlock" ->
           /\ \E i \in 1..Len(tokens) :
                 /\ tokens[i].kind = "VariableStart"
                 /\ tokens[i].position = n.position
                 /\ SkipSpace(i + 1) <= Len(tokens)
                 /\ tokens[SkipSpace(i + 1)].position = n.contained.position
           /\ PositionsRight(n.contained)
      [] OTHER -> IsTokenLeaf(n)

\* C6: a leaf carries its own token's offset, a Math node the offset of the
\* leftmost leaf under it, which is smaller than that of every other leaf under
\* it, and a VariableBlock the offset of the VariableStart that opens it.
C6_Positions ==
    /\ \A i \in 1..Len(Children) : PositionsRight(Children[i])
    /\ \A i \in 1..Len(frames) :
          frames[i].node_stack.kind = "List" =>
             \A j \in 1..Len(frames[i].node_stack.children) :
                PositionsRight(frames[i].node_stack.children[j])

\* after a Text, a block whose payload nests Math nodes on both sides
C6_Witness ==
    /\ Finished
    /\ Len(Children) = 3
    /\ Children[2].kind = "VariableBlock"
    /\ Children[2].position > 0
    /\ IsLowMath(Children[2].contained)
    /\ Children[2].contained.lhs.kind = "Math"
    /\ Children[2].contained.rhs.kind = "Math"

----------------------------------------------------------------------------
(* C7 *)

\* C7: no peek ever reads outside the token list, the cursor stays inside it
\* after every cursor operation of a parsing step, and the cursor never passes
\* an EOF token.
C7_CursorInBounds ==
    /\ err # "peek out of range"
    /\ 0 <= current_token
    /\ current_token < Len(tokens)
    /\ \A i \in 1..current_token : tokens[i].kind # "EOF"

\* a lookahead that skipped a Space, read EOF and rewound onto it
C7_Witness ==
    /\ Aborted
    /\ err = "Unexpected token"
    /\ current_token = Len(tokens) - 1
    /\ tokens[current_token].kind = "Space"

----------------------------------------------------------------------------
(* C8 *)

\* the top-level loop is looking at a TagStart token
AtTagStart ==
    /\ AtTopLevel
    /\ tokens[current_token + 1].kind = "TagStart"

\* the steps a frame can still take without a token being consumed
Rank(at) ==
    CASE at = "after_rhs" -> 3
      [] at = "entry" -> 2
      [] at = "loop" -> 2
      [] OTHER -> 1

RECURSIVE RankSum(_)
RankSum(fs) == IF fs = <<>> THEN 0 ELSE Rank(Head(fs).at) + RankSum(Tail(fs))

\* a bound on the steps the parse has left: five for every token not yet
\* consumed, and those the frames can take on the spot
Measure ==
    IF Finished \/ Aborted
    THEN 0
    ELSE 5 * (Len(tokens) - current_token) + RankSum(frames)

\* some step of the parse can be taken (WholeEntry and MatchDivideMultiply
\* take a step whenever their guards AtEntry and AtDivideMultiply hold)
CanStep ==
    \/ ENABLED ParseNextText
    \/ ENABLED ParseNextVariableStart
    \/ ENABLED ParseNextBreak
    \/ ENABLED VariableBlockFinish
    \/ AtEntry
    \/ ENABLED LoopPeek
    \/ ENABLED MatchTerminator
    \/ ENABLED MatchAddSubstract
    \/ ENABLED AfterRhs
    \/ AtDivideMultiply
    \/ ENABLED MatchUnexpected

\* C8: away from a top-level TagStart every step of the parse lowers a natural
\* number and a parse that has neither returned nor aborted can take a step, so
\* the parse ends; at a top-level TagStart the loop goes round without moving
\* the cursor, appending to the root or leaving the loop.
C8_TerminatesUnlessTagStart ==
    /\ [](Measure >= 0)
    /\ [][~AtTagStart => Measure' < Measure]_vars
    /\ [](Finished \/ Aborted \/ AtTagStart \/ CanStep)
    /\ [](AtTagStart => ENABLED ParseNextTagStart)
    /\ [][AtTagStart => (AtTagStart' /\ current_token' = current_token
                          /\ root' = root /\ frames' = frames)]_vars

\* the no-op has gone round after a block was parsed and appended
C8_Witness ==
    /\ AtTagStart
    /\ spins = MaxSpin
    /\ Len(Children) = 1
    /\ Children[1].kind = "VariableBlock"

----------------------------------------------------------------------------
(* C9 *)

\* the step is the call of peek_non_space at the head of the expression loop
IsLoopPeek ==
    /\ InExpression
    /\ Top.at = "loop"
    /\ pc' = "variable_block"
    /\ Len(frames') = Len(frames)
    /\ frames'[Len(frames')].at = "match"

RECURSIVE SpacesFrom(_)
\* the number of consecutive Space tokens from index c (0-based) on
SpacesFrom(c) ==
    IF c < Len(tokens) /\ tokens[c + 1].kind = "Space" THEN 1 + SpacesFrom(c + 1) ELSE 0

\* C9 as stated: peek_non_space leaves the cursor where it was, however many
\* Space tokens precede the token it returns, and the token list unchanged.
C9_PeekRestoresCursor ==
    [][IsLoopPeek => (current_token' = current_token /\ tokens' = tokens)]_vars

\* C9 amended: peek_non_space returns the first token at or after the cursor
\* that is not a Space and leaves the token list unchanged; the cursor ends on
\* the returned token, advanced by the number of Space tokens skipped.
C9_PeekStopsOnToken ==
    [][IsLoopPeek =>
          /\ tokens' = tokens
          /\ current_token' = current_token + SpacesFrom(current_token)
          /\ frames'[Len(frames')].token = tokens[current_token' + 1]
          /\ frames'[Len(frames')].token.kind # "Space"]_vars

\* the lookahead of the loop has just skipped two Space tokens
C9_Witness ==
    /\ InExpression
    /\ Top.at = "match"
    /\ current_token >= 2
    /\ tokens[current_token].kind = "Space"
    /\ tokens[current_token - 1].kind = "Space"
    /\ Top.token = tokens[current_token + 1]

----------------------------------------------------------------------------
(* C10 *)

\* a call of parse_whole_expression has just returned normally, to
\* parse_variable_block or to the Add/Substract step of the calling frame
JustReturned ==
    /\ pc = "variable_block"
    /\ \/ frames = <<>>
       \/ Top.at = "after_rhs"

\* C10: when parse_whole_expression has returned, the token at the cursor is
\* the terminator, not consumed, so the lookahead of the Add/Substract step
\* reads the terminator and never Multiply or Divide.
C10_ReturnsAtTerminator ==
    JustReturned =>
        /\ tokens[current_token + 1].kind = "VariableEnd"
        /\ PeekNonSpace(current_token).token.kind = "VariableEnd"
        /\ frames # <<>> => Top.terminator = "VariableEnd"

\* a call two levels down has returned to the Add/Substract step above it
C10_Witness ==
    /\ JustReturned
    /\ Len(frames) >= 2
    /\ Top.rhs.kind = "Math"

====
